---- MODULE Spec2Model ----
(***************************************************************************)
(* GPU tensor storage of the Vulkan backend (api/Tensor.cpp): vTensor and  *)
(* vTensorStorage.  The model covers the layout calculator                 *)
(* (calc_gpu_sizes, create_image_extents), the storage's hazard tracking   *)
(* (transition, flush, discard_and_reallocate) and the tensor's metadata   *)
(* buffers and resize operations.                                          *)
(***************************************************************************)
EXTENDS Integers, Sequences, FiniteSets, TLC

VARIABLES
  phase,                    \* "new", "failed" (the constructor threw), "live", "destroyed"
  dtype_,                   \* vTensor::dtype_
  memory_layout_,           \* vTensor::memory_layout_
  sizes_,                   \* vTensor::sizes_
  gpu_sizes_,               \* vTensor::gpu_sizes_
  texture_limits_,          \* vTensor::texture_limits_.limits
  sizes_uniform_,           \* vTensor::sizes_uniform_
  texture_limits_uniform_,  \* vTensor::texture_limits_uniform_
  packed_dim_meta_,         \* vTensor::packed_dim_meta_
  storage_type_,            \* vTensorStorage::storage_type_
  extents_,                 \* vTensorStorage::extents_
  buffer_length_,           \* vTensorStorage::buffer_length_
  image_,                   \* vTensorStorage::image_
  buffer_,                  \* vTensorStorage::buffer_
  last_access_,             \* vTensorStorage::last_access_
  context_,                 \* the api::Context: allocator counters, cleanup queues
  pipeline_barrier,         \* the caller's api::PipelineBarrier accumulator
  last_call                 \* the most recent call on the tensor and its outcome

vars == <<phase, dtype_, memory_layout_, sizes_, gpu_sizes_, texture_limits_,
          sizes_uniform_, texture_limits_uniform_, packed_dim_meta_,
          storage_type_, extents_, buffer_length_, image_, buffer_,
          last_access_, context_, pipeline_barrier, last_call>>

tensor_vars == <<dtype_, memory_layout_, sizes_, gpu_sizes_, texture_limits_,
                 sizes_uniform_, texture_limits_uniform_, packed_dim_meta_>>

storage_vars == <<storage_type_, extents_, buffer_length_, image_, buffer_,
                  last_access_>>

----------------------------------------------------------------------------
(* Bounds of the model *)

\* largest dimension size in the shapes of the layout specification
MaxDim == 5
\* largest rank in the shapes of the layout specification
MaxRank == 4
\* the large dimension size in the shapes of the resize and hazard
\* specifications
BigDim == 5
\* number of image/buffer allocations of one tensor in the scenarios explored
MaxAllocs == 2
\* number of barrier records of this storage in one PipelineBarrier in the
\* scenarios explored
MaxBarriers == 1

----------------------------------------------------------------------------
(* Enumerations *)

kBuffer == "kBuffer"
kTexture3D == "kTexture3D"
kTexture2D == "kTexture2D"
StorageTypes == {kBuffer, kTexture3D, kTexture2D}

kWidthPacked == "kWidthPacked"
kHeightPacked == "kHeightPacked"
kChannelsPacked == "kChannelsPacked"
MemoryLayouts == {kWidthPacked, kHeightPacked, kChannelsPacked}

kFloat == "kFloat"
kHalf == "kHalf"
ScalarTypes == {kFloat, kHalf}

\* api::PipelineStage values (single stages of the PipelineStageFlags mask)
NO_STAGE == "NO_STAGE"
COMPUTE == "COMPUTE"
TRANSFER == "TRANSFER"
PipelineStages == {NO_STAGE, COMPUTE, TRANSFER}

\* api::MemoryAccessFlags: a bit mask over MemoryAccessType, as a set of bits
READ == "READ"
WRITE == "WRITE"
MemoryAccessFlags == SUBSET {READ, WRITE}

VK_IMAGE_LAYOUT_UNDEFINED == "VK_IMAGE_LAYOUT_UNDEFINED"
VK_IMAGE_LAYOUT_GENERAL == "VK_IMAGE_LAYOUT_GENERAL"
VK_IMAGE_LAYOUT_SHADER_READ_ONLY_OPTIMAL == "VK_IMAGE_LAYOUT_SHADER_READ_ONLY_OPTIMAL"
VK_IMAGE_LAYOUT_TRANSFER_SRC_OPTIMAL == "VK_IMAGE_LAYOUT_TRANSFER_SRC_OPTIMAL"
VK_IMAGE_LAYOUT_TRANSFER_DST_OPTIMAL == "VK_IMAGE_LAYOUT_TRANSFER_DST_OPTIMAL"

VK_PIPELINE_STAGE_TOP_OF_PIPE_BIT == "VK_PIPELINE_STAGE_TOP_OF_PIPE_BIT"
VK_PIPELINE_STAGE_BOTTOM_OF_PIPE_BIT == "VK_PIPELINE_STAGE_BOTTOM_OF_PIPE_BIT"
VK_PIPELINE_STAGE_COMPUTE_SHADER_BIT == "VK_PIPELINE_STAGE_COMPUTE_SHADER_BIT"
VK_PIPELINE_STAGE_TRANSFER_BIT == "VK_PIPELINE_STAGE_TRANSFER_BIT"

\* outcome of a call
Ok == "Ok"
InvalidArgument == "InvalidArgument"

\* a value a function returns, or the exception it throws (VK_CHECK_COND, VK_THROW)
Return(v) == [ok |-> TRUE, val |-> v]
Throw == [ok |-> FALSE, val |-> <<>>]

----------------------------------------------------------------------------
(* api::utils helpers and the api's stage / access / layout maps *)

\* api::utils::safe_downcast: the value itself; it throws only for a value the
\* target type cannot hold, far above every size the model's shapes produce
safe_downcast(v) == v

\* api::utils::val_at(index, sizes): the entry at a (negative = from the end)
\* index, 1 when the index is out of range
val_at(index, sizes) ==
  LET ndim == Len(sizes) IN
  IF index >= 0
    THEN (IF index >= ndim THEN 1 ELSE sizes[index + 1])
    ELSE (IF ndim + index < 0 THEN 1 ELSE sizes[ndim + index + 1])

\* api::utils::align_up(numerator, denominator)
align_up(numerator, denominator) ==
  ((numerator + denominator - 1) \div denominator) * denominator

\* api::utils::multiply_integers: the product of the entries, 1 when empty
RECURSIVE multiply_integers(_)
multiply_integers(v) ==
  IF Len(v) = 0 THEN 1 ELSE Head(v) * multiply_integers(Tail(v))

\* api::utils::make_whcn_ivec4(sizes): {width, height, channels, batch}
make_whcn_ivec4(sizes) ==
  <<val_at(-1, sizes), val_at(-2, sizes), val_at(-3, sizes), val_at(-4, sizes)>>

\* api::vk_stage: the Vulkan pipeline-stage bits of a stage, empty for NO_STAGE
vk_stage(stage) ==
  CASE stage = COMPUTE -> {VK_PIPELINE_STAGE_COMPUTE_SHADER_BIT}
    [] stage = TRANSFER -> {VK_PIPELINE_STAGE_TRANSFER_BIT}
    [] OTHER -> {}

\* api::vk_access: the Vulkan access bits of (stage, access)
vk_access(stage, access) ==
  {<<stage, a>> : a \in (IF stage = NO_STAGE THEN {} ELSE access)}

\* api::vk_layout: the image layout an access at a stage needs; it throws for a
\* stage or a transfer access it has no layout for
vk_layout(stage, access) ==
  CASE stage = COMPUTE ->
         IF access = {READ}
           THEN Return(VK_IMAGE_LAYOUT_SHADER_READ_ONLY_OPTIMAL)
           ELSE Return(VK_IMAGE_LAYOUT_GENERAL)
    [] stage = TRANSFER ->
         IF access = {READ} THEN Return(VK_IMAGE_LAYOUT_TRANSFER_SRC_OPTIMAL)
         ELSE IF access = {WRITE} THEN Return(VK_IMAGE_LAYOUT_TRANSFER_DST_OPTIMAL)
         ELSE Throw
    [] OTHER -> Throw


----------------------------------------------------------------------------
(* Layout calculator *)

\* vTensor::gpu_memory_layout_int: the packed dimension, counted from the end
gpu_memory_layout_int(memory_layout) ==
  CASE memory_layout = kWidthPacked -> 0
    [] memory_layout = kHeightPacked -> 1
    [] memory_layout = kChannelsPacked -> 2

\* a faulty pack_gpu_sizes: every case of the switch aligns the last dimension
pack_gpu_sizes_last_axis(gpu_sizes, sizes, memory_layout) ==
  LET ndim == Len(gpu_sizes)
  IN  IF ndim >= 1
        THEN [gpu_sizes EXCEPT ![ndim] = align_up(val_at(-1, sizes), 4)]
        ELSE gpu_sizes

\* calc_gpu_sizes, lines 52-74: the dimension the memory layout packs, counted
\* from the end, aligned up to a multiple of 4 when gpu_sizes has it
pack_gpu_sizes(gpu_sizes, sizes, memory_layout) ==
  LET ndim == Len(gpu_sizes) IN
  CASE memory_layout = kWidthPacked ->
         IF ndim >= 1
           THEN [gpu_sizes EXCEPT ![ndim - 1 + 1] = align_up(val_at(-1, sizes), 4)]
           ELSE gpu_sizes
    [] memory_layout = kHeightPacked ->
         IF ndim >= 2
           THEN [gpu_sizes EXCEPT ![ndim - 2 + 1] = align_up(val_at(-2, sizes), 4)]
           ELSE gpu_sizes
    [] memory_layout = kChannelsPacked ->
         IF ndim >= 3
           THEN [gpu_sizes EXCEPT ![ndim - 3 + 1] = align_up(val_at(-3, sizes), 4)]
           ELSE gpu_sizes
    [] OTHER -> gpu_sizes

\* a faulty calc_gpu_sizes: textures take a shape of any rank
calc_gpu_sizes_any_rank(sizes, memory_layout, storage_type) ==
  IF storage_type = kBuffer
    THEN Return(pack_gpu_sizes(sizes, sizes, memory_layout))
    ELSE Return(pack_gpu_sizes(
           <<val_at(-4, sizes), val_at(-3, sizes),
             val_at(-2, sizes), val_at(-1, sizes)>>,
           sizes, memory_layout))

\* calc_gpu_sizes: the sizes of the memory that stores the tensor on the GPU
calc_gpu_sizes(sizes, memory_layout, storage_type) ==
  IF storage_type = kBuffer
    THEN Return(pack_gpu_sizes(sizes, sizes, memory_layout))
    ELSE IF ~(Len(sizes) >= 0 /\ Len(sizes) <= 4)
      THEN Throw
      ELSE Return(pack_gpu_sizes(
             <<val_at(-4, sizes), val_at(-3, sizes),
               val_at(-2, sizes), val_at(-1, sizes)>>,
             sizes, memory_layout))

\* a faulty create_image_extents: the depth forgets the batch
create_image_extents_no_batch(gpu_sizes, storage_type, memory_layout) ==
  LET width == safe_downcast(val_at(-1, gpu_sizes))
      height == safe_downcast(val_at(-2, gpu_sizes))
      channels == safe_downcast(val_at(-3, gpu_sizes))
  IN  IF storage_type = kBuffer THEN Return(<<0, 0, 0>>)
      ELSE CASE memory_layout = kWidthPacked ->
                  Return(<<width \div 4, height, channels>>)
             [] memory_layout = kHeightPacked ->
                  Return(<<width, height \div 4, channels>>)
             [] OTHER -> Return(<<width, height, channels \div 4>>)

\* create_image_extents
create_image_extents(gpu_sizes, storage_type, memory_layout) ==
  LET ndim == Len(gpu_sizes)
      width == safe_downcast(val_at(-1, gpu_sizes))
      height == safe_downcast(val_at(-2, gpu_sizes))
      channels == safe_downcast(val_at(-3, gpu_sizes))
      batch == safe_downcast(val_at(-4, gpu_sizes))
  IN  IF storage_type = kBuffer THEN Return(<<0, 0, 0>>)
      ELSE IF ~(ndim >= 1 /\ ndim <= 4) THEN Throw
      ELSE CASE memory_layout = kWidthPacked ->
                  IF width % 4 # 0 THEN Throw
                  ELSE Return(<<width \div 4, height, batch * channels>>)
             [] memory_layout = kHeightPacked ->
                  IF height % 4 # 0 THEN Throw
                  ELSE Return(<<width, height \div 4, batch * channels>>)
             [] memory_layout = kChannelsPacked ->
                  IF channels % 4 # 0 THEN Throw
                  ELSE Return(<<width, height, batch * (channels \div 4)>>)
             [] OTHER -> Throw

----------------------------------------------------------------------------
(* Resources of the api: VulkanImage, VulkanBuffer, UniformParamsBuffer *)

\* api::VulkanImage(): the null image
NullImage ==
  [handle |-> 0, extents |-> <<0, 0, 0>>, layout |-> VK_IMAGE_LAYOUT_UNDEFINED,
   owns_memory |-> FALSE]

\* api::VulkanBuffer(): the null buffer
NullBuffer == [handle |-> 0, numel |-> 0, owns_memory |-> FALSE]

\* api::UniformParamsBuffer(): no buffer yet
NullUniform == [buffer |-> 0, data |-> <<>>]

\* VulkanImage::operator bool, VulkanBuffer::operator bool
Live(resource) == resource.handle # 0

\* UniformParamsBuffer::buffer() as a truth value
HasBuffer(uniform) == uniform.buffer # 0

\* allocate_image: the null image unless the storage is a texture; handle is
\* the handle the allocator gives the new image
allocate_image(handle, extents, storage_type, allocate_memory) ==
  IF storage_type \in {kTexture3D, kTexture2D}
    THEN [handle |-> handle, extents |-> extents,
          layout |-> VK_IMAGE_LAYOUT_UNDEFINED, owns_memory |-> allocate_memory]
    ELSE NullImage

\* a faulty allocate_buffer: a buffer whatever the storage type
allocate_buffer_any_storage(handle, numel, storage_type, allocate_memory) ==
  [handle |-> handle, numel |-> numel, owns_memory |-> allocate_memory]

\* allocate_buffer: the null buffer unless the storage is a buffer
allocate_buffer(handle, numel, storage_type, allocate_memory) ==
  IF storage_type = kBuffer
    THEN [handle |-> handle, numel |-> numel, owns_memory |-> allocate_memory]
    ELSE NullBuffer

\* the context after the allocator served one image or buffer
Allocated(ctx) == [ctx EXCEPT !.allocs = @ + 1]

\* the context after one UniformParamsBuffer was created
UniformCreated(ctx) == [ctx EXCEPT !.uniforms = @ + 1]

EmptyBarrier ==
  [stage_src |-> {}, stage_dst |-> {}, images |-> <<>>, buffers |-> <<>>]

EmptyAccess == [stage |-> NO_STAGE, access |-> {}]

\* the record of a call: what was called with what, how it ended, how many
\* barrier records it appended and the handle of what it returned
Call(op, sizes, stage, access, result, emitted, ret) ==
  [op |-> op, sizes |-> sizes, stage |-> stage, access |-> access,
   result |-> result, emitted |-> emitted, ret |-> ret]

\* a faulty flush: only images are registered for cleanup
flush_images_only(ctx, image, buffer) ==
  IF Live(image)
    THEN [ctx EXCEPT !.image_cleanup = Append(@, image.handle)]
    ELSE ctx

\* vTensorStorage::flush, lines 428-432: the context after the live resource is
\* registered for cleanup
flush(ctx, image, buffer) ==
  IF Live(image)
    THEN [ctx EXCEPT !.image_cleanup = Append(@, image.handle)]
    ELSE IF Live(buffer)
      THEN [ctx EXCEPT !.buffer_cleanup = Append(@, buffer.handle)]
      ELSE ctx

\* the member a resource was moved out of when the context took it over for
\* cleanup: no handle and no memory of its own, the rest as it was
moved_from(resource) ==
  [resource EXCEPT !.handle = 0, !.owns_memory = FALSE]

----------------------------------------------------------------------------
(* vTensor: construction *)

\* api::context()->adapter_ptr()->has_16bit_storage(): whether the device of
\* the context supports 16-bit storage
has_16bit_storage == context_.has_16bit_storage

\* the state before a tensor is constructed, on a device of one of the given
\* kinds (TRUE: the device has 16-bit storage)
InitOn(devices) ==
  /\ phase = "new"
  /\ dtype_ = kFloat
  /\ memory_layout_ = kWidthPacked
  /\ sizes_ = <<>>
  /\ gpu_sizes_ = <<>>
  /\ texture_limits_ = <<0, 0, 0>>
  /\ sizes_uniform_ = NullUniform
  /\ texture_limits_uniform_ = NullUniform
  /\ packed_dim_meta_ = NullUniform
  /\ storage_type_ = kBuffer
  /\ extents_ = <<0, 0, 0>>
  /\ buffer_length_ = 0
  /\ image_ = NullImage
  /\ buffer_ = NullBuffer
  /\ last_access_ = EmptyAccess
  /\ context_ \in {[allocs |-> 0, uniforms |-> 0,
                      image_cleanup |-> <<>>, buffer_cleanup |-> <<>>,
                      has_16bit_storage |-> device] : device \in devices}
  /\ pipeline_barrier = EmptyBarrier
  /\ last_call = [op |-> "none", sizes |-> <<>>, stage |-> NO_STAGE,
                  access |-> {}, result |-> Ok, emitted |-> 0, ret |-> 0]

\* the state before construction on a device with 16-bit storage
Init == InitOn({TRUE})

\* vTensor::vTensor with vTensorStorage::vTensorStorage.  calc_gpu_sizes and
\* create_image_extents throw before anything is allocated; the check of lines
\* 162-167 throws after storage_ was built, and the storage's destructor then
\* flushes the resource it had allocated
vTensor(sizes, dtype, storage_type, memory_layout, allocate_memory) ==
  LET gs == calc_gpu_sizes(sizes, memory_layout, storage_type)
      ex == create_image_extents(gs.val, storage_type, memory_layout)
      handle == context_.allocs + 1
      image == allocate_image(handle, ex.val, storage_type, allocate_memory)
      buffer == allocate_buffer(handle, multiply_integers(gs.val),
                                storage_type, allocate_memory)
  IN
  /\ phase = "new"
  /\ IF ~gs.ok \/ ~ex.ok
       THEN /\ phase' = "failed"
            /\ last_call' = Call("vTensor", sizes, NO_STAGE, {}, InvalidArgument, 0, 0)
            /\ UNCHANGED <<tensor_vars, storage_vars, context_, pipeline_barrier>>
       ELSE IF dtype = kHalf /\ ~has_16bit_storage
         THEN /\ phase' = "failed"
              /\ context_' = flush(Allocated(context_), image, buffer)
              /\ last_call' = Call("vTensor", sizes, NO_STAGE, {},
                                   InvalidArgument, 0, 0)
              /\ UNCHANGED <<tensor_vars, storage_vars, pipeline_barrier>>
         ELSE /\ phase' = "live"
              /\ dtype_' = dtype
              /\ memory_layout_' = memory_layout
              /\ sizes_' = sizes
              /\ gpu_sizes_' = gs.val
              /\ sizes_uniform_' = NullUniform
              /\ texture_limits_uniform_' = NullUniform
              /\ packed_dim_meta_' = NullUniform
              /\ storage_type_' = storage_type
              /\ extents_' = ex.val
              /\ buffer_length_' = multiply_integers(gs.val)
              /\ image_' = image
              /\ buffer_' = buffer
              /\ last_access_' = EmptyAccess
              /\ texture_limits_' =
                   IF storage_type # kBuffer THEN ex.val ELSE <<0, 0, 0>>
              /\ context_' = Allocated(context_)
              /\ last_call' = Call("vTensor", sizes, NO_STAGE, {}, Ok, 0, 0)
              /\ UNCHANGED pipeline_barrier

----------------------------------------------------------------------------
(* vTensorStorage: hazard tracking *)

\* a faulty prev_written: any earlier access counts as a write
prev_written_any_access(prev_access) == prev_access # {}

\* vTensorStorage::transition, line 444
prev_written(prev_access) == WRITE \in prev_access

\* a faulty layout_change: the layout recorded in the image is not read
layout_change_from_undefined(image, cur_stage, cur_access) ==
  IF Live(image)
    THEN LET nl == vk_layout(cur_stage, cur_access) IN
         [ok |-> nl.ok, cur_layout |-> VK_IMAGE_LAYOUT_UNDEFINED,
          new_layout |-> nl.val,
          layout_changed |-> nl.ok /\ VK_IMAGE_LAYOUT_UNDEFINED # nl.val]
    ELSE [ok |-> TRUE, cur_layout |-> VK_IMAGE_LAYOUT_UNDEFINED,
          new_layout |-> VK_IMAGE_LAYOUT_UNDEFINED, layout_changed |-> FALSE]

\* vTensorStorage::transition, lines 446-454: the layout of the image now, the
\* layout the access needs, and whether they differ (no image: no change)
layout_change(image, cur_stage, cur_access) ==
  IF Live(image)
    THEN LET nl == vk_layout(cur_stage, cur_access) IN
         [ok |-> nl.ok, cur_layout |-> image.layout, new_layout |-> nl.val,
          layout_changed |-> nl.ok /\ image.layout # nl.val]
    ELSE [ok |-> TRUE, cur_layout |-> VK_IMAGE_LAYOUT_UNDEFINED,
          new_layout |-> VK_IMAGE_LAYOUT_UNDEFINED, layout_changed |-> FALSE]

\* a faulty src_stage: no top-of-pipe for a stage without a flag
src_stage_no_sentinel(prev_stage) == vk_stage(prev_stage)

\* vTensorStorage::transition, lines 457-464
src_stage(prev_stage) ==
  IF vk_stage(prev_stage) = {}
    THEN {VK_PIPELINE_STAGE_TOP_OF_PIPE_BIT} ELSE vk_stage(prev_stage)

dst_stage(cur_stage) ==
  IF vk_stage(cur_stage) = {}
    THEN {VK_PIPELINE_STAGE_BOTTOM_OF_PIPE_BIT} ELSE vk_stage(cur_stage)

\* a faulty transition: the access bits are added to those recorded before
transition_accumulates(cur_stage, cur_access) ==
  LET prev_stage == last_access_.stage
      prev_access == last_access_.access
      lc == layout_change(image_, cur_stage, cur_access)
      emit == prev_written(prev_access) \/ lc.layout_changed
      image_barrier ==
        [src_access |-> vk_access(prev_stage, prev_access),
         dst_access |-> vk_access(cur_stage, cur_access),
         old_layout |-> lc.cur_layout, new_layout |-> lc.new_layout,
         handle |-> image_.handle]
      buffer_barrier ==
        [src_access |-> vk_access(prev_stage, prev_access),
         dst_access |-> vk_access(cur_stage, cur_access),
         handle |-> buffer_.handle]
  IN
  /\ phase = "live"
  /\ IF ~lc.ok
       THEN \* vk_layout threw before anything was written
            /\ last_call' = Call("transition", <<>>, cur_stage, cur_access,
                                 InvalidArgument, 0, 0)
            /\ UNCHANGED <<phase, tensor_vars, storage_vars, context_,
                           pipeline_barrier>>
       ELSE /\ pipeline_barrier' =
                 IF ~emit THEN pipeline_barrier
                 ELSE [stage_src |-> pipeline_barrier.stage_src \cup src_stage(prev_stage),
                       stage_dst |-> pipeline_barrier.stage_dst \cup dst_stage(cur_stage),
                       images |-> IF Live(image_)
                                    THEN Append(pipeline_barrier.images, image_barrier)
                                    ELSE pipeline_barrier.images,
                       buffers |-> IF ~Live(image_) /\ Live(buffer_)
                                     THEN Append(pipeline_barrier.buffers, buffer_barrier)
                                     ELSE pipeline_barrier.buffers]
            /\ image_' = IF emit /\ Live(image_)
                           THEN [image_ EXCEPT !.layout = lc.new_layout]
                           ELSE image_
            /\ last_access_' = [stage |-> cur_stage,
                                 access |-> prev_access \cup cur_access]
            /\ last_call' = Call("transition", <<>>, cur_stage, cur_access, Ok,
                                 IF emit /\ (Live(image_) \/ Live(buffer_))
                                   THEN 1 ELSE 0, 0)
            /\ UNCHANGED <<phase, tensor_vars, storage_type_, extents_,
                           buffer_length_, buffer_, context_>>

\* vTensorStorage::transition
transition(cur_stage, cur_access) ==
  LET prev_stage == last_access_.stage
      prev_access == last_access_.access
      lc == layout_change(image_, cur_stage, cur_access)
      emit == prev_written(prev_access) \/ lc.layout_changed
      image_barrier ==
        [src_access |-> vk_access(prev_stage, prev_access),
         dst_access |-> vk_access(cur_stage, cur_access),
         old_layout |-> lc.cur_layout, new_layout |-> lc.new_layout,
         handle |-> image_.handle]
      buffer_barrier ==
        [src_access |-> vk_access(prev_stage, prev_access),
         dst_access |-> vk_access(cur_stage, cur_access),
         handle |-> buffer_.handle]
  IN
  /\ phase = "live"
  /\ IF ~lc.ok
       THEN \* vk_layout threw before anything was written
            /\ last_call' = Call("transition", <<>>, cur_stage, cur_access,
                                 InvalidArgument, 0, 0)
            /\ UNCHANGED <<phase, tensor_vars, storage_vars, context_,
                           pipeline_barrier>>
       ELSE /\ pipeline_barrier' =
                 IF ~emit THEN pipeline_barrier
                 ELSE [stage_src |-> pipeline_barrier.stage_src \cup src_stage(prev_stage),
                       stage_dst |-> pipeline_barrier.stage_dst \cup dst_stage(cur_stage),
                       images |-> IF Live(image_)
                                    THEN Append(pipeline_barrier.images, image_barrier)
                                    ELSE pipeline_barrier.images,
                       buffers |-> IF ~Live(image_) /\ Live(buffer_)
                                     THEN Append(pipeline_barrier.buffers, buffer_barrier)
                                     ELSE pipeline_barrier.buffers]
            /\ image_' = IF emit /\ Live(image_)
                           THEN [image_ EXCEPT !.layout = lc.new_layout]
                           ELSE image_
            /\ last_access_' = [stage |-> cur_stage, access |-> cur_access]
            /\ last_call' = Call("transition", <<>>, cur_stage, cur_access, Ok,
                                 IF emit /\ (Live(image_) \/ Live(buffer_))
                                   THEN 1 ELSE 0, 0)
            /\ UNCHANGED <<phase, tensor_vars, storage_type_, extents_,
                           buffer_length_, buffer_, context_>>

\* vTensor::image(pipeline_barrier, stage)
image_stage(stage) == transition(stage, {READ})

\* vTensor::image(pipeline_barrier, stage, access)
image_stage_access(stage, access) == transition(stage, access)

\* vTensor::buffer(pipeline_barrier, stage)
buffer_stage(stage) == transition(stage, {READ})

\* vTensor::buffer(pipeline_barrier, stage, access)
buffer_stage_access(stage, access) == transition(stage, access)

\* the caller hands the next call a new, empty api::PipelineBarrier
new_pipeline_barrier ==
  /\ phase = "live"
  /\ pipeline_barrier # EmptyBarrier
  /\ pipeline_barrier' = EmptyBarrier
  /\ last_call' = Call("new_pipeline_barrier", <<>>, NO_STAGE, {}, Ok, 0, 0)
  /\ UNCHANGED <<phase, tensor_vars, storage_vars, context_>>

\* the accumulator the caller hands over is shared with other resources: it
\* already holds the barrier of another resource, an image or a buffer written
\* at one stage and read at another (the record, under a handle that is none
\* of this storage's, and its stage bits)
other_resource_barrier ==
  /\ phase = "live"
  /\ pipeline_barrier = EmptyBarrier
  /\ \E src \in {COMPUTE, TRANSFER}, dst \in {COMPUTE, TRANSFER},
        other_is_image \in BOOLEAN :
       pipeline_barrier' =
         [stage_src |-> vk_stage(src),
          stage_dst |-> vk_stage(dst),
          images |-> IF other_is_image
                       THEN <<[src_access |-> vk_access(src, {WRITE}),
                               dst_access |-> vk_access(dst, {READ}),
                               old_layout |-> vk_layout(src, {WRITE}).val,
                               new_layout |-> vk_layout(dst, {READ}).val,
                               handle |-> -1]>>
                       ELSE <<>>,
          buffers |-> IF other_is_image
                        THEN <<>>
                        ELSE <<[src_access |-> vk_access(src, {WRITE}),
                                dst_access |-> vk_access(dst, {READ}),
                                handle |-> -1]>>]
  /\ last_call' = Call("other_resource_barrier", <<>>, NO_STAGE, {}, Ok, 0, 0)
  /\ UNCHANGED <<phase, tensor_vars, storage_vars, context_>>

\* vTensor::~vTensor with vTensorStorage::~vTensorStorage
destroy ==
  /\ phase = "live"
  /\ phase' = "destroyed"
  /\ context_' = flush(context_, image_, buffer_)
  /\ last_access_' = EmptyAccess
  /\ last_call' = Call("destroy", <<>>, NO_STAGE, {}, Ok, 0, 0)
  /\ UNCHANGED <<tensor_vars, storage_type_, extents_, buffer_length_, image_,
                 buffer_, pipeline_barrier>>

----------------------------------------------------------------------------
(* vTensor: metadata buffers *)

\* vTensor::make_packed_dim_metadata over the members it reads:
\* {dim_size, dim_size_padded, dim_texel_len, padding}
make_packed_dim_metadata(sizes, gpu_sizes, extents, memory_layout) ==
  LET packed_dim == gpu_memory_layout_int(memory_layout)
      dim_size == val_at(-(packed_dim + 1), sizes)
      dim_size_padded == val_at(-(packed_dim + 1), gpu_sizes)
      dim_texel_len == extents[packed_dim + 1]
      padding == dim_size_padded - dim_size
  IN  <<dim_size, dim_size_padded, dim_texel_len, padding>>

\* api::UniformParamsBuffer(context, data): a new uniform buffer holding data
NewUniform(ctx, data) == [buffer |-> ctx.uniforms + 1, data |-> data]

\* a faulty sizes_ubo: a new buffer on every call
sizes_ubo_always_creates ==
  /\ phase = "live"
  /\ context_.uniforms < 4
  /\ sizes_uniform_' = NewUniform(context_, make_whcn_ivec4(sizes_))
  /\ context_' = UniformCreated(context_)
  /\ last_call' = Call("sizes_ubo", <<>>, NO_STAGE, {}, Ok, 0,
                       sizes_uniform_'.buffer)
  /\ UNCHANGED <<phase, dtype_, memory_layout_, sizes_, gpu_sizes_,
                 texture_limits_, texture_limits_uniform_, packed_dim_meta_,
                 storage_vars, pipeline_barrier>>

\* vTensor::sizes_ubo
sizes_ubo ==
  /\ phase = "live"
  /\ IF ~HasBuffer(sizes_uniform_)
       THEN /\ sizes_uniform_' = NewUniform(context_, make_whcn_ivec4(sizes_))
            /\ context_' = UniformCreated(context_)
       ELSE UNCHANGED <<sizes_uniform_, context_>>
  /\ last_call' = Call("sizes_ubo", <<>>, NO_STAGE, {}, Ok, 0,
                       sizes_uniform_'.buffer)
  /\ UNCHANGED <<phase, dtype_, memory_layout_, sizes_, gpu_sizes_,
                 texture_limits_, texture_limits_uniform_, packed_dim_meta_,
                 storage_vars, pipeline_barrier>>

\* vTensor::texture_limits_ubo
texture_limits_ubo ==
  /\ phase = "live"
  /\ IF ~HasBuffer(texture_limits_uniform_)
       THEN /\ texture_limits_uniform_' = NewUniform(context_, texture_limits_)
            /\ context_' = UniformCreated(context_)
       ELSE UNCHANGED <<texture_limits_uniform_, context_>>
  /\ last_call' = Call("texture_limits_ubo", <<>>, NO_STAGE, {}, Ok, 0,
                       texture_limits_uniform_'.buffer)
  /\ UNCHANGED <<phase, dtype_, memory_layout_, sizes_, gpu_sizes_,
                 texture_limits_, sizes_uniform_, packed_dim_meta_,
                 storage_vars, pipeline_barrier>>

\* vTensor::packed_dim_meta_ubo
packed_dim_meta_ubo ==
  /\ phase = "live"
  /\ IF ~HasBuffer(packed_dim_meta_)
       THEN /\ packed_dim_meta_' =
                 NewUniform(context_,
                            make_packed_dim_metadata(sizes_, gpu_sizes_, extents_,
                                                     memory_layout_))
            /\ context_' = UniformCreated(context_)
       ELSE UNCHANGED <<packed_dim_meta_, context_>>
  /\ last_call' = Call("packed_dim_meta_ubo", <<>>, NO_STAGE, {}, Ok, 0,
                       packed_dim_meta_'.buffer)
  /\ UNCHANGED <<phase, dtype_, memory_layout_, sizes_, gpu_sizes_,
                 texture_limits_, sizes_uniform_, texture_limits_uniform_,
                 storage_vars, pipeline_barrier>>

\* UniformParamsBuffer::update(data), called only when the buffer exists
UpdateUniform(uniform, data) ==
  IF HasBuffer(uniform) THEN [uniform EXCEPT !.data = data] ELSE uniform

\* vTensor::update_size_metadata: the members it leaves behind, and whether it
\* returned (ok) or threw part-way
update_size_metadata(new_sizes) ==
  LET gs == calc_gpu_sizes(new_sizes, memory_layout_, storage_type_)
      virtual_extents == create_image_extents(gs.val, storage_type_, memory_layout_)
      unchanged ==
        [ok |-> FALSE, sizes |-> new_sizes, gpu_sizes |-> gpu_sizes_,
         texture_limits |-> texture_limits_, sizes_uniform |-> sizes_uniform_,
         texture_limits_uniform |-> texture_limits_uniform_,
         packed_dim_meta |-> packed_dim_meta_]
      limits == IF storage_type_ # kBuffer
                  THEN virtual_extents.val ELSE texture_limits_
  IN  IF ~gs.ok THEN unchanged
      ELSE IF storage_type_ # kBuffer /\ ~virtual_extents.ok
        THEN [unchanged EXCEPT !.gpu_sizes = gs.val]
      ELSE [ok |-> TRUE, sizes |-> new_sizes, gpu_sizes |-> gs.val,
            texture_limits |-> limits,
            sizes_uniform |->
              UpdateUniform(sizes_uniform_, make_whcn_ivec4(new_sizes)),
            texture_limits_uniform |->
              UpdateUniform(texture_limits_uniform_, limits),
            packed_dim_meta |->
              UpdateUniform(packed_dim_meta_,
                            make_packed_dim_metadata(new_sizes, gs.val, extents_,
                                                     memory_layout_))]

\* the tensor's members after update_size_metadata left m
SetMetadata(m) ==
  /\ sizes_' = m.sizes
  /\ gpu_sizes_' = m.gpu_sizes
  /\ texture_limits_' = m.texture_limits
  /\ sizes_uniform_' = m.sizes_uniform
  /\ texture_limits_uniform_' = m.texture_limits_uniform
  /\ packed_dim_meta_' = m.packed_dim_meta
  /\ UNCHANGED <<dtype_, memory_layout_>>

----------------------------------------------------------------------------
(* vTensor: resize *)

\* a faulty discard_and_reallocate: the resource is kept when the new extents
\* and length are no larger than the old ones
discard_and_reallocate_keeps_fitting(gpu_sizes, gpu_memory_layout, dtype) ==
  LET flushed == flush(context_, image_, buffer_)
      ex == create_image_extents(gpu_sizes, storage_type_, gpu_memory_layout)
      handle == context_.allocs + 1
      fits == /\ \A i \in 1..3 : ex.val[i] <= extents_[i]
              /\ multiply_integers(gpu_sizes) <= buffer_length_
  IN  IF fits
        THEN [ok |-> TRUE, extents |-> extents_, buffer_length |-> buffer_length_,
              image |-> image_, buffer |-> buffer_, last_access |-> last_access_,
              context |-> Allocated(context_)]
        ELSE [ok |-> TRUE, extents |-> ex.val,
              buffer_length |-> multiply_integers(gpu_sizes),
              image |-> allocate_image(handle, ex.val, storage_type_,
                                       image_.owns_memory),
              buffer |-> allocate_buffer(handle, multiply_integers(gpu_sizes),
                                         storage_type_, buffer_.owns_memory),
              last_access |-> EmptyAccess,
              context |-> Allocated(flushed)]

\* a faulty discard_and_reallocate: the new resource always gets its own memory
discard_and_reallocate_owns_memory(gpu_sizes, gpu_memory_layout, dtype) ==
  LET flushed == flush(context_, image_, buffer_)
      ex == create_image_extents(gpu_sizes, storage_type_, gpu_memory_layout)
      handle == context_.allocs + 1
  IN  [ok |-> ex.ok, extents |-> ex.val,
       buffer_length |-> multiply_integers(gpu_sizes),
       image |-> allocate_image(handle, ex.val, storage_type_, TRUE),
       buffer |-> allocate_buffer(handle, multiply_integers(gpu_sizes),
                                  storage_type_, TRUE),
       last_access |-> EmptyAccess,
       context |-> Allocated(flushed)]

\* a faulty discard_and_reallocate: the last access outlives the old resource
discard_and_reallocate_keeps_hazard(gpu_sizes, gpu_memory_layout, dtype) ==
  LET flushed == flush(context_, image_, buffer_)
      ex == create_image_extents(gpu_sizes, storage_type_, gpu_memory_layout)
      handle == context_.allocs + 1
  IN  [ok |-> ex.ok, extents |-> ex.val,
       buffer_length |-> multiply_integers(gpu_sizes),
       image |-> allocate_image(handle, ex.val, storage_type_,
                                image_.owns_memory),
       buffer |-> allocate_buffer(handle, multiply_integers(gpu_sizes),
                                  storage_type_, buffer_.owns_memory),
       last_access |-> last_access_,
       context |-> Allocated(flushed)]

\* vTensorStorage::discard_and_reallocate: the storage members and the context
\* it leaves behind, and whether it returned (ok) or threw after the flush
discard_and_reallocate(gpu_sizes, gpu_memory_layout, dtype) ==
  LET image_owns_memory == image_.owns_memory
      buffer_owns_memory == buffer_.owns_memory
      flushed == flush(context_, image_, buffer_)
      ex == create_image_extents(gpu_sizes, storage_type_, gpu_memory_layout)
      handle == context_.allocs + 1
  IN  IF ~ex.ok
        THEN \* create_image_extents threw after the flush: the context has
             \* taken the resource over, nothing replaces it
             [ok |-> FALSE, extents |-> extents_, buffer_length |-> buffer_length_,
              image |-> IF Live(image_) THEN moved_from(image_) ELSE image_,
              buffer |-> IF ~Live(image_) /\ Live(buffer_)
                           THEN moved_from(buffer_) ELSE buffer_,
              last_access |-> EmptyAccess,
              context |-> flushed]
        ELSE [ok |-> TRUE, extents |-> ex.val,
              buffer_length |-> multiply_integers(gpu_sizes),
              image |-> allocate_image(handle, ex.val, storage_type_,
                                       image_owns_memory),
              buffer |-> allocate_buffer(handle, multiply_integers(gpu_sizes),
                                         storage_type_, buffer_owns_memory),
              last_access |-> EmptyAccess,
              context |-> Allocated(flushed)]

\* vTensor::reallocate
reallocate(new_sizes) ==
  LET m == update_size_metadata(new_sizes)
      gs == calc_gpu_sizes(new_sizes, memory_layout_, storage_type_)
      d == discard_and_reallocate(gs.val, memory_layout_, dtype_)
  IN
  /\ phase = "live"
  /\ SetMetadata(m)
  /\ IF ~m.ok \/ ~gs.ok
       THEN /\ last_call' = Call("reallocate", new_sizes, NO_STAGE, {},
                                 InvalidArgument, 0, 0)
            /\ UNCHANGED <<phase, storage_vars, context_, pipeline_barrier>>
       ELSE /\ extents_' = d.extents
            /\ buffer_length_' = d.buffer_length
            /\ image_' = d.image
            /\ buffer_' = d.buffer
            /\ last_access_' = d.last_access
            /\ context_' = d.context
            /\ last_call' = Call("reallocate", new_sizes, NO_STAGE, {},
                                 IF d.ok THEN Ok ELSE InvalidArgument, 0, 0)
            /\ UNCHANGED <<phase, storage_type_, pipeline_barrier>>

\* a faulty valid_resize: a buffer must hold the elements of the new shape
valid_resize_checks_buffer(new_sizes) ==
  IF storage_type_ # kBuffer
    THEN LET virtual_extents ==
               create_image_extents(gpu_sizes_, storage_type_, memory_layout_)
         IN  /\ virtual_extents.ok
             /\ virtual_extents.val[1] <= extents_[1]
             /\ virtual_extents.val[2] <= extents_[2]
             /\ virtual_extents.val[3] <= extents_[3]
    ELSE multiply_integers(
           calc_gpu_sizes(new_sizes, memory_layout_, storage_type_).val)
           <= buffer_length_

\* vTensor::virtual_resize, lines 312-323: whether the size check lets the
\* resize through
valid_resize(new_sizes) ==
  IF storage_type_ # kBuffer
    THEN LET virtual_extents ==
               create_image_extents(gpu_sizes_, storage_type_, memory_layout_)
         IN  /\ virtual_extents.ok
             /\ virtual_extents.val[1] <= extents_[1]
             /\ virtual_extents.val[2] <= extents_[2]
             /\ virtual_extents.val[3] <= extents_[3]
    ELSE TRUE

\* vTensor::virtual_resize
virtual_resize(new_sizes) ==
  LET m == update_size_metadata(new_sizes) IN
  /\ phase = "live"
  /\ IF ~valid_resize(new_sizes)
       THEN /\ last_call' = Call("virtual_resize", new_sizes, NO_STAGE, {},
                                 InvalidArgument, 0, 0)
            /\ UNCHANGED <<phase, tensor_vars, storage_vars, context_,
                           pipeline_barrier>>
       ELSE /\ SetMetadata(m)
            /\ last_call' = Call("virtual_resize", new_sizes, NO_STAGE, {},
                                 IF m.ok THEN Ok ELSE InvalidArgument, 0, 0)
            /\ UNCHANGED <<phase, storage_vars, context_, pipeline_barrier>>

----------------------------------------------------------------------------------------------------------------------------------------------------
(* Specifications *)

\* all shapes of rank up to r with entries in dims
Shapes(r, dims) == UNION {[1..n -> dims] : n \in 0..r}

\* the shapes of the layout specification
LayoutShapes == Shapes(MaxRank, 1..MaxDim)

\* the shapes of the resize specification
ResizeShapes ==
  {<<>>, <<BigDim>>, <<BigDim, 1>>, <<BigDim, 1, 1>>, <<2, BigDim, 1, 1>>,
   <<1, 1, 1, 1, 1>>}

\* the shape of the hazard specification
HazardShapes == {<<BigDim>>}

Construct(shapes, storage_types, memory_layouts, allocate) ==
  /\ phase = "new"
  /\ \E sizes \in shapes, storage_type \in storage_types,
        memory_layout \in memory_layouts, allocate_memory \in allocate :
       vTensor(sizes, kFloat, storage_type, memory_layout, allocate_memory)

\* the number of records of an accumulator that are barriers of this storage
\* (its resources have positive handles), not of another resource
OwnRecords(pb) ==
  Cardinality({i \in 1..Len(pb.images) : pb.images[i].handle > 0})
    + Cardinality({i \in 1..Len(pb.buffers) : pb.buffers[i].handle > 0})

\* the scenarios explored end where a call would leave more than MaxBarriers
\* records of this storage in one accumulator: the caller submits it first.
\* Calls that append nothing, or that throw, are explored at the bound too
WithinBarriers == OwnRecords(pipeline_barrier') <= MaxBarriers

\* the scenarios explored end where a call would make the allocator serve more
\* than MaxAllocs resources.  Calls that throw before they allocate are
\* explored at the bound too
WithinAllocs == context_'.allocs <= MaxAllocs

ImageStage ==
  \E stage \in PipelineStages : image_stage(stage) /\ WithinBarriers

ImageStageAccess ==
  \E stage \in PipelineStages, access \in MemoryAccessFlags :
    image_stage_access(stage, access) /\ WithinBarriers

BufferStage ==
  \E stage \in PipelineStages : buffer_stage(stage) /\ WithinBarriers

BufferStageAccess ==
  \E stage \in PipelineStages, access \in MemoryAccessFlags :
    buffer_stage_access(stage, access) /\ WithinBarriers

\* hazard tracking: construction, accesses through the four accessors,
\* reallocation (which flushes) and destruction, on one shape
ConstructHazard ==
  Construct(HazardShapes, {kBuffer, kTexture3D}, {kWidthPacked}, {TRUE})

ReallocateHazard ==
  \E new_sizes \in HazardShapes : reallocate(new_sizes) /\ WithinAllocs

Next ==
  \/ ConstructHazard
  \/ ImageStage
  \/ ImageStageAccess
  \/ BufferStage
  \/ BufferStageAccess
  \/ new_pipeline_barrier
  \/ ReallocateHazard
  \/ destroy

Spec == Init /\ [][Next]_vars

\* resizes and metadata buffers over many shapes, without accesses
ConstructResize ==
  Construct(ResizeShapes, {kBuffer, kTexture3D}, MemoryLayouts, {TRUE})

ReallocateResize ==
  \E new_sizes \in ResizeShapes : reallocate(new_sizes) /\ WithinAllocs

VirtualResizeResize == \E new_sizes \in ResizeShapes : virtual_resize(new_sizes)

NextResize ==
  \/ ConstructResize
  \/ sizes_ubo
  \/ texture_limits_ubo
  \/ packed_dim_meta_ubo
  \/ ReallocateResize
  \/ VirtualResizeResize

SpecResize == Init /\ [][NextResize]_vars

\* the layout calculator over all shapes: construction and the packed-dim
\* metadata
ConstructLayout == Construct(LayoutShapes, StorageTypes, MemoryLayouts, {TRUE})

NextLayout ==
  \/ ConstructLayout
  \/ packed_dim_meta_ubo

SpecLayout == Init /\ [][NextLayout]_vars

\* the shapes of the rank specification: one of every rank from 0 to 5, and
\* one too wide for the image of the others
RankShapes ==
  {<<>>, <<1>>, <<1, 1>>, <<1, 1, 1>>, <<1, 1, 1, 1>>, <<1, 1, 1, 1, 1>>,
   <<BigDim>>}

\* the rank check of textures: construction and resizes of image-backed
\* tensors over shapes of every rank
ConstructRank ==
  Construct(RankShapes, {kTexture3D, kTexture2D}, MemoryLayouts, {TRUE})

ReallocateRank ==
  \E new_sizes \in RankShapes : reallocate(new_sizes) /\ WithinAllocs

VirtualResizeRank == \E new_sizes \in RankShapes : virtual_resize(new_sizes)

NextRank ==
  \/ ConstructRank
  \/ ReallocateRank
  \/ VirtualResizeRank

SpecRank == Init /\ [][NextRank]_vars

\* the shapes of the lifetime specification
LifeShapes == {<<1>>, <<BigDim>>}

\* the lifetime of a storage of every kind, element type and memory-ownership
\* mode, on devices with and without 16-bit storage: construction, accesses,
\* resizes and destruction
InitLife == InitOn(BOOLEAN)

ConstructLife ==
  /\ phase = "new"
  /\ \E sizes \in LifeShapes, dtype \in ScalarTypes,
        storage_type \in StorageTypes, allocate_memory \in BOOLEAN :
       vTensor(sizes, dtype, storage_type, kWidthPacked, allocate_memory)

TransitionLife ==
  \E stage \in {COMPUTE, TRANSFER}, access \in {{READ}, {WRITE}} :
    transition(stage, access) /\ WithinBarriers

ReallocateLife ==
  \E new_sizes \in LifeShapes : reallocate(new_sizes) /\ WithinAllocs

VirtualResizeLife == \E new_sizes \in LifeShapes : virtual_resize(new_sizes)

NextLife ==
  \/ ConstructLife
  \/ TransitionLife
  \/ new_pipeline_barrier
  \/ ReallocateLife
  \/ VirtualResizeLife
  \/ destroy

SpecLife == InitLife /\ [][NextLife]_vars

\* the stage masks and records: accesses of an image or a buffer through an
\* accumulator that may hold the barrier of another resource
NextMasks ==
  \/ ConstructHazard
  \/ ImageStageAccess
  \/ BufferStageAccess
  \/ new_pipeline_barrier
  \/ other_resource_barrier

SpecMasks == Init /\ [][NextMasks]_vars

----------------------------------------------------------------------------
(* Properties: the layout calculator *)

\* the dimension a memory layout packs, counted from the end of the shape
PackedFromEnd(memory_layout) ==
  CASE memory_layout = kWidthPacked -> 1
    [] memory_layout = kHeightPacked -> 2
    [] memory_layout = kChannelsPacked -> 3

\* the next multiple of 4 at or above n
NextMultipleOf4(n) == CHOOSE m \in n..(n + 3) : m % 4 = 0

\* the shape right-aligned into (batch, channel, height, width), missing
\* leading dimensions as 1
RightAligned4(sizes) ==
  [i \in 1..4 |-> IF i > 4 - Len(sizes) THEN sizes[i - (4 - Len(sizes))] ELSE 1]

\* shape with the entry that is the k-th from the end, if any, rounded up
RoundedAt(shape, k) ==
  [i \in 1..Len(shape) |->
     IF i = Len(shape) - k + 1 THEN NextMultipleOf4(shape[i]) ELSE shape[i]]

\* C8: for linear-buffer storage the physical shape has the rank of the
\* logical shape and equals it entry by entry, except that the entry the packing
\* policy selects (1st, 2nd or 3rd from the end) is rounded up to the next
\* multiple of 4, and equals it exactly when the shape has no such entry; the
\* buffer element count is the product of the physical shape ([10] width-packed
\* gives [12] and 12 elements)
C8_BufferPhysicalShape ==
  /\ (phase = "live" /\ storage_type_ = kBuffer) =>
       /\ Len(gpu_sizes_) = Len(sizes_)
       /\ gpu_sizes_ = RoundedAt(sizes_, PackedFromEnd(memory_layout_))
       /\ (Len(sizes_) < PackedFromEnd(memory_layout_) => gpu_sizes_ = sizes_)
       /\ buffer_length_ = multiply_integers(gpu_sizes_)
       /\ buffer_.numel = buffer_length_
  /\ calc_gpu_sizes(<<10>>, kWidthPacked, kBuffer) = Return(<<12>>)
  /\ multiply_integers(calc_gpu_sizes(<<10>>, kWidthPacked, kBuffer).val) = 12

\* a buffer tensor whose packed entry was rounded up
C8_Witness ==
  /\ phase = "live"
  /\ storage_type_ = kBuffer
  /\ memory_layout_ = kChannelsPacked
  /\ sizes_ = <<3, 5, 2>>
  /\ gpu_sizes_ = <<4, 5, 2>>
  /\ buffer_length_ = 40

\* C9: for image storage and a logical shape of rank 0 to 4 the physical
\* shape has exactly 4 entries (the shape right-aligned into batch, channel,
\* height, width, the packed axis rounded up to a multiple of 4), and the image
\* extent of it never fails the divisibility check and is {width, height,
\* batch * channel} with the packed axis divided by 4 exactly ([1,3,8,8]
\* channels-packed gives [1,4,8,8] and {8,8,1})
C9_ImagePhysicalShape ==
  /\ (phase = "live" /\ storage_type_ # kBuffer) =>
       LET k == PackedFromEnd(memory_layout_)
           b == gpu_sizes_[1]
           c == gpu_sizes_[2]
           h == gpu_sizes_[3]
           w == gpu_sizes_[4]
       IN  /\ Len(sizes_) <= 4
           /\ Len(gpu_sizes_) = 4
           /\ gpu_sizes_ = RoundedAt(RightAligned4(sizes_), k)
           /\ gpu_sizes_[4 - k + 1] % 4 = 0
           /\ extents_ = CASE k = 1 -> <<w \div 4, h, b * c>>
                           [] k = 2 -> <<w, h \div 4, b * c>>
                           [] k = 3 -> <<w, h, b * (c \div 4)>>
           /\ image_.extents = extents_
  /\ phase = "failed" => Len(last_call.sizes) > 4
  /\ calc_gpu_sizes(<<1, 3, 8, 8>>, kChannelsPacked, kTexture3D)
       = Return(<<1, 4, 8, 8>>)
  /\ create_image_extents(<<1, 4, 8, 8>>, kTexture3D, kChannelsPacked)
       = Return(<<8, 8, 1>>)

\* an image tensor of several batches whose channels were padded
C9_Witness ==
  /\ phase = "live"
  /\ storage_type_ = kTexture3D
  /\ memory_layout_ = kChannelsPacked
  /\ sizes_ = <<2, 5, 3, 3>>
  /\ gpu_sizes_ = <<2, 8, 3, 3>>
  /\ extents_ = <<3, 3, 4>>

\* C10: for an image-backed tensor of any shape and packing policy the
\* packed-dim metadata is {logical size of the packed dimension, its physical
\* (rounded) size, its physical size counted in 4-wide texels, padding =
\* physical - logical}, with 0 <= padding <= 3
C10_PackedDimMeta ==
  (phase = "live" /\ storage_type_ # kBuffer /\ HasBuffer(packed_dim_meta_)) =>
    LET k == PackedFromEnd(memory_layout_)
        logical == RightAligned4(sizes_)[4 - k + 1]
        physical == NextMultipleOf4(logical)
    IN  /\ packed_dim_meta_.data =
             <<logical, physical, physical \div 4, physical - logical>>
        /\ packed_dim_meta_.data[4] \in 0..3

----------------------------------------------------------------------------
(* Properties: resize and metadata buffers *)

\* the image extent a logical shape implies for this tensor
ImpliedExtent(new_sizes) ==
  create_image_extents(
    calc_gpu_sizes(new_sizes, memory_layout_, storage_type_).val,
    storage_type_, memory_layout_).val

\* extent a is no larger than extent b in width, height and depth
Fits(a, b) == \A i \in 1..3 : a[i] <= b[i]

\* the step is a call of op (every call records itself in last_call)
Called(op) == last_call'.op = op

\* C3: for an image-backed tensor, virtual_resize(new_shape) fails with an
\* InvalidArgument-class error whenever the extent implied by new_shape exceeds
\* the allocated extent in width, height or depth
C3_VirtualResizeRejectsLarger ==
  [][(/\ Called("virtual_resize")
      /\ storage_type_ # kBuffer
      /\ Len(last_call'.sizes) <= 4
      /\ ~Fits(ImpliedExtent(last_call'.sizes), extents_))
     => last_call'.result = InvalidArgument]_vars

\* C4: for an image-backed tensor in any reachable state, virtual_resize
\* succeeds whenever the extent implied by new_shape fits the allocated extent,
\* and leaves the physical resource unchanged: same resource, extent, buffer
\* length, image layout and hazard state
C4_VirtualResizeAcceptsFitting ==
  [][(/\ Called("virtual_resize")
      /\ storage_type_ # kBuffer
      /\ Len(last_call'.sizes) <= 4
      /\ Fits(ImpliedExtent(last_call'.sizes), extents_))
     => /\ last_call'.result = Ok
        /\ sizes_' = last_call'.sizes
        /\ UNCHANGED <<image_, buffer_, extents_, buffer_length_, last_access_>>]_vars

\* C5: after a successful reallocate(new_shape) the recorded extent is the
\* image extent of the physical shape of new_shape, the buffer element count is
\* the product of that physical shape, the live resource is a newly allocated
\* one of that size, and for image storage texture_limits equal that extent
C5_ReallocateMatchesShape ==
  [][(Called("reallocate") /\ last_call'.result = Ok)
     => LET new_sizes == last_call'.sizes
            physical == calc_gpu_sizes(new_sizes, memory_layout_, storage_type_).val
            extent == ImpliedExtent(new_sizes)
        IN  /\ extents_' = extent
            /\ buffer_length_' = multiply_integers(physical)
            /\ IF storage_type_ # kBuffer
                 THEN /\ Live(image_') /\ ~Live(buffer_')
                      /\ image_'.handle > context_.allocs
                      /\ image_'.handle # image_.handle
                      /\ image_'.extents = extent
                      /\ image_'.layout = VK_IMAGE_LAYOUT_UNDEFINED
                      /\ texture_limits_' = extent
                 ELSE /\ Live(buffer_') /\ ~Live(image_')
                      /\ buffer_'.handle > context_.allocs
                      /\ buffer_'.handle # buffer_.handle
                      /\ buffer_'.numel = multiply_integers(physical)]_vars

\* an image that was reallocated to a smaller shape after a larger one
C5_Witness ==
  /\ phase = "live"
  /\ storage_type_ = kTexture3D
  /\ memory_layout_ = kWidthPacked
  /\ last_call.op = "reallocate"
  /\ last_call.result = Ok
  /\ last_call.sizes = <<>>
  /\ context_.image_cleanup = <<1>>
  /\ image_.handle = 2
  /\ extents_ = <<1, 1, 1>>
  /\ HasBuffer(texture_limits_uniform_)
  /\ texture_limits_uniform_.data = <<1, 1, 1>>

\* C6: once a metadata buffer exists, after every successful reallocate or
\* virtual_resize it holds the value its accessor would store if the buffer
\* were first created now
C6_MetadataInSync ==
  (/\ phase = "live"
   /\ last_call.op \in {"reallocate", "virtual_resize"}
   /\ last_call.result = Ok)
  => /\ HasBuffer(sizes_uniform_) =>
          sizes_uniform_.data = make_whcn_ivec4(sizes_)
     /\ HasBuffer(texture_limits_uniform_) =>
          texture_limits_uniform_.data = texture_limits_
     /\ HasBuffer(packed_dim_meta_) =>
          packed_dim_meta_.data =
            make_packed_dim_metadata(sizes_, gpu_sizes_, extents_, memory_layout_)

\* how an accessor step treats its metadata buffer: created on the first call
\* only, the same buffer returned afterwards
LazyOnce(before, after) ==
  /\ IF HasBuffer(before)
       THEN /\ after = before
            /\ context_'.uniforms = context_.uniforms
       ELSE /\ HasBuffer(after)
            /\ context_'.uniforms = context_.uniforms + 1
  /\ last_call'.ret = after.buffer

\* C7: each of sizes_ubo, texture_limits_ubo and packed_dim_meta_ubo creates
\* its buffer on its first call only and later returns a binding to the same
\* buffer; reallocate and virtual_resize never create a metadata buffer
C7_LazyMetadataBuffers ==
  [][/\ Called("sizes_ubo") =>
          /\ LazyOnce(sizes_uniform_, sizes_uniform_')
          /\ UNCHANGED <<texture_limits_uniform_, packed_dim_meta_>>
     /\ Called("texture_limits_ubo") =>
          /\ LazyOnce(texture_limits_uniform_, texture_limits_uniform_')
          /\ UNCHANGED <<sizes_uniform_, packed_dim_meta_>>
     /\ Called("packed_dim_meta_ubo") =>
          /\ LazyOnce(packed_dim_meta_, packed_dim_meta_')
          /\ UNCHANGED <<sizes_uniform_, texture_limits_uniform_>>
     /\ (Called("reallocate") \/ Called("virtual_resize")) =>
          /\ sizes_uniform_'.buffer = sizes_uniform_.buffer
          /\ texture_limits_uniform_'.buffer = texture_limits_uniform_.buffer
          /\ packed_dim_meta_'.buffer = packed_dim_meta_.buffer
          /\ context_'.uniforms = context_.uniforms]_vars

\* sizes_ubo called again after a second buffer was created and the tensor was
\* resized: it returns the first buffer, and only two buffers were ever created
C7_Witness ==
  /\ phase = "live"
  /\ last_call.op = "sizes_ubo"
  /\ last_call.ret = 1
  /\ sizes_uniform_.buffer = 1
  /\ packed_dim_meta_.buffer = 2
  /\ ~HasBuffer(texture_limits_uniform_)
  /\ context_.uniforms = 2
  /\ context_.allocs = 2

----------------------------------------------------------------------------
(* Properties: hazard tracking *)

\* the number of barrier records an accumulator holds
Records(pb) == Len(pb.images) + Len(pb.buffers)

\* seq with one more entry at its end
Appended(before, after) ==
  /\ Len(after) = Len(before) + 1
  /\ SubSeq(after, 1, Len(before)) = before

\* C1: for two consecutive transition() calls on the same Storage with no
\* flush in between, if at least one of the two accesses includes WRITE
\* (write-after-write, write-after-read, read-after-write), the second call
\* appends a memory barrier for the resource to the accumulator
C1_BarrierWhenEitherWrites ==
  [][(/\ last_call.op = "transition"
      /\ last_call.result = Ok
      /\ last_call.stage # NO_STAGE
      /\ Called("transition")
      /\ last_call'.result = Ok
      /\ last_call'.stage # NO_STAGE
      /\ (WRITE \in last_call.access \/ WRITE \in last_call'.access))
     => Records(pipeline_barrier') = Records(pipeline_barrier) + 1]_vars

\* C2: a transition() call appends no barrier record and leaves the stage
\* masks unchanged when the previously recorded access is read-only and (for an
\* image) the layout the target (stage, access) implies is the image's current
\* layout; in every other case it appends exactly one record, an image barrier
\* for image storage and a buffer barrier for buffer storage
C2_BarrierExactlyWhenNeeded ==
  [][(Called("transition") /\ last_call'.result = Ok)
     => LET target_layout == vk_layout(last_call'.stage, last_call'.access).val
            quiet == /\ WRITE \notin last_access_.access
                     /\ Live(image_) => target_layout = image_.layout
        IN  IF quiet
              THEN pipeline_barrier' = pipeline_barrier
              ELSE IF Live(image_)
                THEN /\ Appended(pipeline_barrier.images, pipeline_barrier'.images)
                     /\ pipeline_barrier'.buffers = pipeline_barrier.buffers
                     /\ pipeline_barrier'.images[Len(pipeline_barrier'.images)].handle
                          = image_.handle
                ELSE /\ Live(buffer_)
                     /\ Appended(pipeline_barrier.buffers, pipeline_barrier'.buffers)
                     /\ pipeline_barrier'.images = pipeline_barrier.images
                     /\ pipeline_barrier'.buffers[Len(pipeline_barrier'.buffers)].handle
                          = buffer_.handle]_vars

\* a read of a buffer that emitted nothing, the accumulator still holding the
\* one barrier that the read after the write before it had emitted
C2_Witness ==
  /\ phase = "live"
  /\ storage_type_ = kBuffer
  /\ last_call.op = "transition"
  /\ last_call.result = Ok
  /\ last_call.access = {READ}
  /\ last_call.emitted = 0
  /\ Len(pipeline_barrier.buffers) = 1
  /\ pipeline_barrier.buffers[1].src_access = {<<COMPUTE, WRITE>>}
  /\ pipeline_barrier.buffers[1].dst_access = {<<TRANSFER, READ>>}
  /\ pipeline_barrier.buffers[1].handle = buffer_.handle

----------------------------------------------------------------------------
(* Properties: errors of the rank check *)

\* C11: for image storage, constructing a tensor with a logical shape of rank
\* greater than 4, or resizing one to it by reallocate or virtual_resize, fails
\* with an InvalidArgument-class error; a shape of rank 0 to 4 is never
\* rejected for its rank: construction and reallocate accept it, and
\* virtual_resize rejects it only when its size check fails
C11_RankAboveFourRejected ==
  [][/\ Called("vTensor") =>
          (last_call'.result = InvalidArgument <=> Len(last_call'.sizes) > 4)
     /\ (Called("reallocate") /\ storage_type_ # kBuffer) =>
          (last_call'.result = InvalidArgument <=> Len(last_call'.sizes) > 4)
     /\ (Called("virtual_resize") /\ storage_type_ # kBuffer) =>
          /\ Len(last_call'.sizes) > 4 => last_call'.result = InvalidArgument
          /\ (Len(last_call'.sizes) <= 4 /\ last_call'.result = InvalidArgument)
               => ~Fits(create_image_extents(gpu_sizes_, storage_type_,
                                             memory_layout_).val, extents_)]_vars

\* a 2D-texture tensor that was reallocated to a rank-4 shape and then refused
\* a virtual resize to a rank-5 shape
C11_Witness ==
  /\ phase = "live"
  /\ storage_type_ = kTexture2D
  /\ image_.handle = 2
  /\ gpu_sizes_ = <<1, 1, 1, 4>>
  /\ last_call.op = "virtual_resize"
  /\ Len(last_call.sizes) = 5
  /\ last_call.result = InvalidArgument

----------------------------------------------------------------------------
(* Properties: the storage's resource over its lifetime *)

\* the storage kinds backed by an image
ImageKinds == {kTexture3D, kTexture2D}

\* C12: in every state reached by construction followed by any sequence of
\* transition, virtual_resize and reallocate calls, exactly one of the storage's
\* image and buffer is live and the other is the null resource; which one is
\* decided by the storage kind (image for 2D and 3D textures, buffer for linear
\* buffers), and the storage kind never changes after construction
C12_ExactlyOneLiveResource ==
  /\ [](phase = "live" =>
          IF storage_type_ \in ImageKinds
            THEN Live(image_) /\ buffer_ = NullBuffer
            ELSE Live(buffer_) /\ image_ = NullImage)
  /\ [][phase = "live" => storage_type_' = storage_type_]_vars

\* a buffer-backed storage that was written, reallocated and resized
C12_Witness ==
  /\ phase = "live"
  /\ storage_type_ = kBuffer
  /\ buffer_.handle = 2
  /\ image_ = NullImage
  /\ Len(pipeline_barrier.buffers) = 1
  /\ pipeline_barrier.buffers[1].handle = 1
  /\ last_call.op = "virtual_resize"
  /\ last_call.result = Ok

\* the handles 1..n in the order they were allocated
HandlesUpTo(n) == [i \in 1..n |-> i]

\* C13: over any lifetime construct, (transition | virtual_resize |
\* reallocate)*, destroy, every resource the storage allocated is handed to the
\* context's matching deferred-cleanup queue (images to the image queue, buffers
\* to the buffer queue) exactly once: each replaced resource at its reallocate,
\* the last one at destruction, none twice and none never
\* (a construction that fails after the storage was built counts as a
\* lifetime that ends at once)
C13_CleanupExactlyOnce ==
  LET image_kind == storage_type_ \in ImageKinds
      matching == IF image_kind THEN context_.image_cleanup
                                ELSE context_.buffer_cleanup
      other == IF image_kind THEN context_.buffer_cleanup
                             ELSE context_.image_cleanup
      live == IF image_kind THEN image_.handle ELSE buffer_.handle
  IN  /\ phase = "live" =>
           /\ other = <<>>
           /\ live = context_.allocs
           /\ matching = HandlesUpTo(context_.allocs - 1)
      /\ phase = "destroyed" =>
           /\ other = <<>>
           /\ matching = HandlesUpTo(context_.allocs)
      /\ phase = "failed" =>
           /\ {context_.image_cleanup, context_.buffer_cleanup}
                \subseteq {<<>>, HandlesUpTo(context_.allocs)}
           /\ Len(context_.image_cleanup) + Len(context_.buffer_cleanup)
                = context_.allocs

\* a destroyed buffer-backed storage that had been reallocated once
C13_Witness ==
  /\ phase = "destroyed"
  /\ storage_type_ = kBuffer
  /\ context_.allocs = 2
  /\ context_.buffer_cleanup = <<1, 2>>
  /\ context_.image_cleanup = <<>>

\* the storage's live resource
LiveResource(image, buffer) == IF Live(image) THEN image ELSE buffer

\* C18: discard_and_reallocate keeps the memory-ownership mode of the live
\* resource: a storage constructed with allocate_memory = true owns the memory
\* of its resource after construction and after every reallocate, one whose
\* resource did not own its memory gets a replacement created without memory
\* of its own; storage type, memory layout and element type are unchanged by
\* reallocate
C18_ReallocateKeepsOwnership ==
  [][/\ (Called("reallocate") /\ last_call'.result = Ok) =>
          /\ LiveResource(image_', buffer_').owns_memory
               = LiveResource(image_, buffer_).owns_memory
          /\ LiveResource(image_', buffer_').handle
               # LiveResource(image_, buffer_).handle
          /\ UNCHANGED <<storage_type_, memory_layout_, dtype_>>
     /\ (Called("vTensor") /\ last_call'.result = Ok) =>
          \A allocate_memory \in BOOLEAN :
            (\E sizes \in LifeShapes, dtype \in ScalarTypes,
                storage_type \in StorageTypes :
               vTensor(sizes, dtype, storage_type, kWidthPacked, allocate_memory))
            => LiveResource(image_', buffer_').owns_memory = allocate_memory]_vars

\* a half-precision image created without memory of its own, replaced by a
\* second one that has none either
C18_Witness ==
  /\ phase = "live"
  /\ dtype_ = kHalf
  /\ storage_type_ = kTexture3D
  /\ last_call.op = "reallocate"
  /\ last_call.result = Ok
  /\ image_.handle = 2
  /\ ~image_.owns_memory
  /\ context_.image_cleanup = <<1>>

----------------------------------------------------------------------------
(* Properties: the hazard state and the barriers *)

\* C14: after every transition call that returned, whether or not it emitted a
\* barrier, the hazard state is exactly the (stage, access) of that call, a
\* single last-access slot and not an accumulation of earlier accesses; the
\* image and buffer accessors that take no access record READ
C14_HazardStateOverwritten ==
  [][/\ (Called("transition") /\ last_call'.result = Ok) =>
          last_access_' = [stage |-> last_call'.stage,
                           access |-> last_call'.access]
     /\ ((ImageStage \/ BufferStage) /\ last_call'.result = Ok) =>
          last_access_'.access = {READ}]_vars

\* a read at the transfer stage that emitted nothing, right after a read at
\* the compute stage that followed a write: the slot holds the last call only
C14_Witness ==
  /\ phase = "live"
  /\ storage_type_ = kBuffer
  /\ last_call.op = "transition"
  /\ last_call.result = Ok
  /\ last_call.emitted = 0
  /\ last_access_ = [stage |-> TRANSFER, access |-> {READ}]
  /\ Len(pipeline_barrier.buffers) = 1
  /\ pipeline_barrier.buffers[1].src_access = {<<COMPUTE, WRITE>>}
  /\ pipeline_barrier.buffers[1].dst_access = {<<COMPUTE, READ>>}

\* the last entry of a non-empty sequence
Last(seq) == seq[Len(seq)]

\* C15: for an image-backed storage every emitted image barrier carries as old
\* layout the layout recorded before the call and as new layout the layout the
\* target (stage, access) implies, and the recorded layout is updated in the
\* same call; so after any transition the recorded layout is the layout the
\* hazard state implies, and each barrier's old layout is the previous
\* barrier's new layout, UNDEFINED for the first barrier on a fresh image
\* (the layout changes in no other way, and a new image starts UNDEFINED)
C15_LayoutChain ==
  [][/\ (Called("transition") /\ last_call'.result = Ok /\ Live(image_)) =>
          LET target == vk_layout(last_call'.stage, last_call'.access).val
              barrier == Last(pipeline_barrier'.images)
          IN  /\ image_'.layout = target
              /\ image_'.layout
                   = vk_layout(last_access_'.stage, last_access_'.access).val
              /\ last_call'.emitted = 0 =>
                   /\ image_'.layout = image_.layout
                   /\ pipeline_barrier'.images = pipeline_barrier.images
              /\ last_call'.emitted = 1 =>
                   /\ Appended(pipeline_barrier.images, pipeline_barrier'.images)
                   /\ barrier.handle = image_.handle
                   /\ barrier.old_layout = image_.layout
                   /\ barrier.new_layout = target
                   /\ (/\ pipeline_barrier.images # <<>>
                       /\ Last(pipeline_barrier.images).handle = image_.handle)
                      => barrier.old_layout
                           = Last(pipeline_barrier.images).new_layout
     /\ (~Called("transition") /\ Live(image_')) =>
          \/ image_' = image_
          \/ /\ image_'.handle # image_.handle
             /\ image_'.layout = VK_IMAGE_LAYOUT_UNDEFINED]_vars

\* the second barrier of an image: a write at the compute stage after a read
\* there, leading from the layout the read left to the general layout
C15_Witness ==
  /\ phase = "live"
  /\ storage_type_ = kTexture3D
  /\ image_.handle = 1
  /\ image_.layout = VK_IMAGE_LAYOUT_GENERAL
  /\ last_call.op = "transition"
  /\ last_call.emitted = 1
  /\ Len(pipeline_barrier.images) = 1
  /\ pipeline_barrier.images[1].old_layout
       = VK_IMAGE_LAYOUT_SHADER_READ_ONLY_OPTIMAL
  /\ pipeline_barrier.images[1].new_layout = VK_IMAGE_LAYOUT_GENERAL

\* C16: when transition() emits a barrier it ORs the pipeline-stage flag of
\* the previous stage into the accumulator's source mask and that of the target
\* stage into its destination mask, with top-of-pipe for a previous stage that
\* maps to no flag and bottom-of-pipe for a target stage that maps to no flag;
\* bits already in the masks and records already appended are never removed,
\* so both masks are non-empty after any emitted barrier
C16_StageMasks ==
  [][(Called("transition") /\ last_call'.result = Ok) =>
       LET from == IF vk_stage(last_access_.stage) = {}
                     THEN {VK_PIPELINE_STAGE_TOP_OF_PIPE_BIT}
                     ELSE vk_stage(last_access_.stage)
           to == IF vk_stage(last_call'.stage) = {}
                   THEN {VK_PIPELINE_STAGE_BOTTOM_OF_PIPE_BIT}
                   ELSE vk_stage(last_call'.stage)
       IN  /\ last_call'.emitted = 1 =>
                /\ pipeline_barrier'.stage_src = pipeline_barrier.stage_src \cup from
                /\ pipeline_barrier'.stage_dst = pipeline_barrier.stage_dst \cup to
                /\ pipeline_barrier'.stage_src # {}
                /\ pipeline_barrier'.stage_dst # {}
           /\ pipeline_barrier.stage_src \subseteq pipeline_barrier'.stage_src
           /\ pipeline_barrier.stage_dst \subseteq pipeline_barrier'.stage_dst
           /\ Len(pipeline_barrier'.images) >= Len(pipeline_barrier.images)
           /\ Len(pipeline_barrier'.buffers) >= Len(pipeline_barrier.buffers)
           /\ SubSeq(pipeline_barrier'.images, 1, Len(pipeline_barrier.images))
                = pipeline_barrier.images
           /\ SubSeq(pipeline_barrier'.buffers, 1, Len(pipeline_barrier.buffers))
                = pipeline_barrier.buffers]_vars

\* a buffer written at no stage and then accessed at no stage, through an
\* accumulator that held the buffer barrier and the transfer and compute bits
\* of another resource: the record was appended after the one already there
\* and both sentinels were added to the bits already there
C16_Witness ==
  /\ phase = "live"
  /\ storage_type_ = kBuffer
  /\ last_call.op = "transition"
  /\ last_call.emitted = 1
  /\ Len(pipeline_barrier.buffers) = 2
  /\ pipeline_barrier.buffers[1].handle = -1
  /\ pipeline_barrier.buffers[1].src_access = {<<TRANSFER, WRITE>>}
  /\ pipeline_barrier.buffers[2].handle = buffer_.handle
  /\ pipeline_barrier.images = <<>>
  /\ pipeline_barrier.stage_src
       = {VK_PIPELINE_STAGE_TRANSFER_BIT, VK_PIPELINE_STAGE_TOP_OF_PIPE_BIT}
  /\ pipeline_barrier.stage_dst
       = {VK_PIPELINE_STAGE_COMPUTE_SHADER_BIT,
          VK_PIPELINE_STAGE_BOTTOM_OF_PIPE_BIT}

\* C17: reallocate, through flush, resets the hazard state to no prior
\* access whatever the access before it was: the first transition after a
\* reallocate emits no barrier on a buffer-backed storage, even when the access
\* before the reallocate was a WRITE, and on an image-backed storage emits
\* exactly one barrier, with old layout UNDEFINED and source stage top-of-pipe
C17_ReallocateResetsHazard ==
  [][/\ (Called("reallocate") /\ last_call'.result = Ok) =>
          last_access_' = EmptyAccess
     /\ (/\ \/ (last_call.op = "reallocate" /\ last_call.result = Ok)
             \/ /\ Live(image_)
                /\ image_.handle > 1
                /\ image_.layout = VK_IMAGE_LAYOUT_UNDEFINED
         /\ Called("transition")
         /\ last_call'.result = Ok) =>
          IF storage_type_ = kBuffer
            THEN /\ last_call'.emitted = 0
                 /\ pipeline_barrier' = pipeline_barrier
            ELSE /\ last_call'.emitted = 1
                 /\ Appended(pipeline_barrier.images, pipeline_barrier'.images)
                 /\ pipeline_barrier'.buffers = pipeline_barrier.buffers
                 /\ Last(pipeline_barrier'.images).handle = image_.handle
                 /\ Last(pipeline_barrier'.images).old_layout
                      = VK_IMAGE_LAYOUT_UNDEFINED
                 /\ Last(pipeline_barrier'.images).src_access = {}
                 /\ pipeline_barrier'.stage_src
                      = pipeline_barrier.stage_src
                          \cup {VK_PIPELINE_STAGE_TOP_OF_PIPE_BIT}]_vars

\* a buffer whose last access before the reallocate was a write (the target of
\* the barrier still in the accumulator), accessed after the reallocate
\* without a barrier
C17_Witness ==
  /\ phase = "live"
  /\ storage_type_ = kBuffer
  /\ buffer_.handle = 2
  /\ last_call.op = "transition"
  /\ last_call.result = Ok
  /\ last_call.emitted = 0
  /\ last_access_ = [stage |-> COMPUTE, access |-> {READ}]
  /\ Len(pipeline_barrier.buffers) = 1
  /\ pipeline_barrier.buffers[1].handle = 1
  /\ pipeline_barrier.buffers[1].dst_access = {<<COMPUTE, WRITE>>}

----------------------------------------------------------------------------
(* Properties: resizes of buffers, and the shapes a resize leaves *)

\* C19: for linear-buffer storage virtual_resize makes no size check: it
\* succeeds for every new logical shape, also one whose physical element count
\* exceeds the allocated buffer length, updates the logical and the physical
\* shape, and leaves the buffer and its recorded element count unchanged
C19_BufferVirtualResizeUnchecked ==
  [][(Called("virtual_resize") /\ storage_type_ = kBuffer) =>
       /\ last_call'.result = Ok
       /\ sizes_' = last_call'.sizes
       /\ gpu_sizes_' = RoundedAt(last_call'.sizes, PackedFromEnd(memory_layout_))
       /\ UNCHANGED <<buffer_, buffer_length_, image_, extents_>>]_vars

\* a buffer of one element resized in place to a shape of 8 physical elements
C19_Witness ==
  /\ phase = "live"
  /\ storage_type_ = kBuffer
  /\ memory_layout_ = kWidthPacked
  /\ last_call.op = "virtual_resize"
  /\ last_call.result = Ok
  /\ sizes_ = <<BigDim>>
  /\ multiply_integers(gpu_sizes_) > buffer_length_
  /\ buffer_length_ = 1
  /\ buffer_.numel = 1
  /\ buffer_.handle = 1

\* C20: in every reachable state of a tensor, after construction and after
\* any sequence of reallocate and virtual_resize calls including calls that
\* failed with an error, the stored physical shape is the physical shape
\* computed from the stored logical shape, the memory layout and the storage
\* type
C20_PhysicalShapeDerived ==
  phase = "live" =>
    calc_gpu_sizes(sizes_, memory_layout_, storage_type_) = Return(gpu_sizes_)

\* C21: for an image-backed tensor, in every state reached by construction
\* followed by any sequence of successful virtual_resize and reallocate calls,
\* texture_limits (the extent shaders are given) is no larger than the extent
\* of the allocated image in width, height and depth
C21_TextureLimitsWithinImage ==
  (/\ phase = "live"
   /\ storage_type_ # kBuffer
   /\ last_call.op \in {"vTensor", "virtual_resize", "reallocate"}
   /\ last_call.result = Ok)
  => /\ Fits(texture_limits_, extents_)
     /\ Fits(texture_limits_, image_.extents)

====
